---------------------------- MODULE Spec2Model ----------------------------
(***************************************************************************)
(* A model of ADMesh's mesh utilities as shipped in Slic3r                 *)
(* (src/admesh/util.cpp): the neighbour verification pass, the geometric   *)
(* transforms with their bounding-box bookkeeping, the signed volume with  *)
(* its global orientation fix, and the flag-driven repair driver.          *)
(*                                                                         *)
(* Numbers.  The program computes in float/double.  The model computes in  *)
(* exact integers:                                                         *)
(*   - coordinates are integers;                                           *)
(*   - facets lie in planes perpendicular to a coordinate axis (or are     *)
(*     degenerate), so that a normalised normal is one of the six axis     *)
(*     unit vectors or zero and stl_normalize_vector is exact;             *)
(*   - rotations are by multiples of 90 degrees (cos, sin in {-1,0,1});    *)
(*   - get_area is kept doubled and stats.volume in sixths (the code's     *)
(*     0.5f and /3.0f are the only divisions), so volume 1.0 is stored 6;  *)
(*   - the repair tolerance and increment are counted in 1/10000 units     *)
(*     (the code's bounding_diameter / 10000.0 is then exact).             *)
(* Rounding noise of the floating point operations is not modelled.        *)
(***************************************************************************)
EXTENDS Integers, Sequences, FiniteSets, TLC

VARIABLES
    stl,      \* the stl_file: facet_start, neighbors_start, stats, error, v_shared
    pc,       \* position inside stl_repair: "idle" or the stage about to run
    call,     \* arguments and locals of the stl_repair call in progress / last made
    trace,    \* what the current / last stl_repair call invoked, in order
    report,   \* the mismatches printed by the last stl_verify_neighbors pass
    fault,    \* "none", or what an out-of-bounds facet read led to
    hist      \* the last operations applied, newest first, each with the mesh before it

vars == <<stl, pc, call, trace, report, fault, hist>>

---------------------------------------------------------------------------
(* Vectors: stl_vertex / stl_normal are 3-tuples, component k of the code  *)
(* is component k+1 here.                                                  *)

Zero3 == <<0, 0, 0>>

VAdd(a, b) == <<a[1] + b[1], a[2] + b[2], a[3] + b[3]>>

VSub(a, b) == <<a[1] - b[1], a[2] - b[2], a[3] - b[3]>>

VNeg(a) == <<-a[1], -a[2], -a[3]>>

\* Eigen's array() product: component-wise.
VMul(a, s) == <<a[1] * s[1], a[2] * s[2], a[3] * s[3]>>

Dot(a, b) == a[1] * b[1] + a[2] * b[2] + a[3] * b[3]

Cross(a, b) == <<a[2] * b[3] - a[3] * b[2],
                 a[3] * b[1] - a[1] * b[3],
                 a[1] * b[2] - a[2] * b[1]>>

Abs(x) == IF x < 0 THEN -x ELSE x

\* Largest r with r*r <= n: the integer part of sqrt(n).
ISqrt(n) == CHOOSE r \in 0..n : r * r <= n /\ (r + 1) * (r + 1) > n

\* Vector3::norm(), to the integer below.
Norm(a) == ISqrt(Dot(a, a))

AxisUnits == {<<1, 0, 0>>, <<-1, 0, 0>>, <<0, 1, 0>>, <<0, -1, 0>>,
              <<0, 0, 1>>, <<0, 0, -1>>}

\* stl_normalize_vector: a vector shorter than 1e-12 becomes zero, any other
\* is divided by its length.  Exact on the vectors along an axis, the only
\* ones the model builds.
StlNormalizeVector(n) ==
    IF n = Zero3 THEN Zero3
    ELSE CHOOSE u \in AxisUnits :
             \E k \in 1..(Abs(n[1]) + Abs(n[2]) + Abs(n[3])) :
                 n = <<k * u[1], k * u[2], k * u[3]>>

\* stl_calculate_normal: (v1 - v0) x (v2 - v0).
StlCalculateNormal(facet) ==
    Cross(VSub(facet.vertex[2], facet.vertex[1]),
          VSub(facet.vertex[3], facet.vertex[1]))

Facet(v0, v1, v2, n) == [vertex |-> <<v0, v1, v2>>, normal |-> n]

\* A facet whose stored normal is the unit normal of its winding.
FacetOf(v0, v1, v2) ==
    Facet(v0, v1, v2,
          StlNormalizeVector(StlCalculateNormal(Facet(v0, v1, v2, Zero3))))

NoNeighbors == [neighbor |-> <<-1, -1, -1>>, which_vertex_not |-> <<-1, -1, -1>>]

---------------------------------------------------------------------------
(* The mesh.  Facets and neighbour rows are numbered from 0 in the code    *)
(* and stored at index i+1 here; vertex and edge numbers j in 0..2 are at  *)
(* tuple position j+1.  Neighbour numbers are kept as the code keeps them: *)
(* -1 for none, else the 0-based facet number.                             *)

NumFacets(s) == s.stats.number_of_facets

\* facet_start[i].vertex[j], i and j 0-based.
Vtx(s, i, j) == s.facet_start[i + 1].vertex[j + 1]

\* Every vertex of facets 0..number_of_facets-1 replaced by f(vertex):
\* the double loop of the transforms.
MapVertices(s, f(_)) ==
    [i \in 1..Len(s.facet_start) |->
        IF i <= NumFacets(s)
        THEN [s.facet_start[i] EXCEPT
                 !.vertex = <<f(@[1]), f(@[2]), f(@[3])>>]
        ELSE s.facet_start[i]]

\* stl_invalidate_shared_vertices: drops the shared-vertex index.
StlInvalidateSharedVertices(s) == [s EXCEPT !.v_shared = FALSE]

\* stl_reverse_facet on one facet: vertex[0] and vertex[1] change places
\* and the normal changes sign.
StlReverseFacet(facet) ==
    [vertex |-> <<facet.vertex[2], facet.vertex[1], facet.vertex[3]>>,
     normal |-> VNeg(facet.normal)]

\* stl_reverse_all_facets: every facet reversed, each counted in
\* stats.facets_reversed.
StlReverseAllFacets(s) ==
    IF s.error THEN s
    ELSE [s EXCEPT
             !.facet_start =
                 [i \in 1..Len(@) |->
                     IF i <= NumFacets(s) THEN StlReverseFacet(@[i]) ELSE @[i]],
             !.stats.facets_reversed = @ + NumFacets(s)]

---------------------------------------------------------------------------
(* stl_verify_neighbors                                                    *)

\* A pass that compares every entry as if its offset were below 3.
EdgeBReverseOnly(s, n, vnot) ==
    <<Vtx(s, n, (vnot + 2) % 3), Vtx(s, n, (vnot + 1) % 3)>>

\* The edge of neighbour facet n that edge j of a facet is compared with.
EdgeB(s, n, vnot) ==
    IF vnot < 3
    THEN <<Vtx(s, n, (vnot + 2) % 3), Vtx(s, n, (vnot + 1) % 3)>>
    ELSE <<Vtx(s, n, (vnot + 1) % 3), Vtx(s, n, (vnot + 2) % 3)>>

EdgeA(s, i, j) == <<Vtx(s, i, j), Vtx(s, i, (j + 1) % 3)>>

\* Whether the pass prints "edge j of facet i doesn't match ..." .
EdgeMismatch(s, i, j) ==
    LET n    == s.neighbors_start[i + 1].neighbor[j + 1]
        vnot == s.neighbors_start[i + 1].which_vertex_not[j + 1]
    IN  /\ n # -1
        /\ EdgeA(s, i, j) # EdgeB(s, n, vnot)

\* Whether the pass counts edge j of facet i as a backwards edge.
EdgeBackwards(s, i, j) ==
    /\ s.neighbors_start[i + 1].neighbor[j + 1] # -1
    /\ s.neighbors_start[i + 1].which_vertex_not[j + 1] >= 3

\* The line printed for edge j of facet i.
MismatchLine(s, i, j) ==
    [edge     |-> j,
     facet    |-> i,
     nedge    |-> s.neighbors_start[i + 1].which_vertex_not[j + 1] + 1,
     neighbor |-> s.neighbors_start[i + 1].neighbor[j + 1]]

\* The (facet, edge) pairs in the order the two loops visit them.
VisitOrder(s) ==
    [e \in 1..(3 * NumFacets(s)) |-> <<(e - 1) \div 3, (e - 1) % 3>>]

\* The pairs for which a line is printed, in the order printed.
Mismatched(s) ==
    LET Bad(x) == EdgeMismatch(s, x[1], x[2])
    IN  SelectSeq(VisitOrder(s), Bad)

\* The value of stats.backwards_edges when the loops end.
CountBackwards(s) ==
    LET Back(x) == EdgeBackwards(s, x[1], x[2])
    IN  Len(SelectSeq(VisitOrder(s), Back))

\* The lines stl_verify_neighbors prints.
VerifyLines(s) ==
    IF s.error THEN <<>>
    ELSE [k \in 1..Len(Mismatched(s)) |->
             MismatchLine(s, Mismatched(s)[k][1], Mismatched(s)[k][2])]

\* A pass that does not start its count from zero.
StlVerifyNeighborsNoReset(s) ==
    IF s.error THEN s
    ELSE [s EXCEPT !.stats.backwards_edges = @ + CountBackwards(s)]

StlVerifyNeighbors(s) ==
    IF s.error THEN s
    ELSE [s EXCEPT !.stats.backwards_edges = CountBackwards(s)]

---------------------------------------------------------------------------
(* stl_get_size, calculate_normals, and the transforms                     *)

\* All vertices of facets 0..number_of_facets-1.
Vertices(s) == {Vtx(s, i, j) : i \in 0..(NumFacets(s) - 1), j \in 0..2}

\* What folding cwiseMin / cwiseMax over the vertices, starting from the
\* first one, leaves in component k.
LeastCoord(s, k) ==
    CHOOSE m \in {v[k] : v \in Vertices(s)} : \A v \in Vertices(s) : m <= v[k]

GreatestCoord(s, k) ==
    CHOOSE m \in {v[k] : v \in Vertices(s)} : \A v \in Vertices(s) : m >= v[k]

\* stats.min and stats.max after the loop of stl_get_size.
SizeLoop(s) ==
    [min |-> <<LeastCoord(s, 1), LeastCoord(s, 2), LeastCoord(s, 3)>>,
     max |-> <<GreatestCoord(s, 1), GreatestCoord(s, 2), GreatestCoord(s, 3)>>]

StlGetSize(s) ==
    IF s.error \/ NumFacets(s) = 0 THEN s
    ELSE LET r == SizeLoop(s)
         IN  [s EXCEPT !.stats.min = r.min,
                       !.stats.max = r.max,
                       !.stats.size = VSub(r.max, r.min),
                       !.stats.bounding_diameter = Norm(VSub(r.max, r.min))]

CalculateNormals(s) ==
    IF s.error THEN s
    ELSE [s EXCEPT !.facet_start =
             [i \in 1..Len(s.facet_start) |->
                 IF i <= NumFacets(s)
                 THEN [s.facet_start[i] EXCEPT
                          !.normal = StlNormalizeVector(
                                         StlCalculateNormal(s.facet_start[i]))]
                 ELSE s.facet_start[i]]]

StlTranslate(s, x, y, z) ==
    IF s.error THEN s
    ELSE LET new_min == <<x, y, z>>
             shift   == VSub(new_min, s.stats.min)
             Move(v) == VAdd(v, shift)
         IN  StlInvalidateSharedVertices(
                 [s EXCEPT !.facet_start = MapVertices(s, Move),
                           !.stats.min = new_min,
                           !.stats.max = VAdd(@, shift)])

StlTranslateRelative(s, x, y, z) ==
    IF s.error THEN s
    ELSE LET shift   == <<x, y, z>>
             Move(v) == VAdd(v, shift)
         IN  StlInvalidateSharedVertices(
                 [s EXCEPT !.facet_start = MapVertices(s, Move),
                           !.stats.min = VAdd(@, shift),
                           !.stats.max = VAdd(@, shift)])

\* A scaling that does not look at the error flag.
StlScaleVersorUnguarded(s, versor) ==
    LET Scale(v) == VMul(v, versor)
    IN  StlInvalidateSharedVertices(
            [s EXCEPT !.stats.min = VMul(@, versor),
                      !.stats.max = VMul(@, versor),
                      !.stats.size = VMul(@, versor),
                      !.facet_start = MapVertices(s, Scale)])

StlScaleVersor(s, versor) ==
    IF s.error THEN s
    ELSE LET Scale(v) == VMul(v, versor)
         IN  StlInvalidateSharedVertices(
                 [s EXCEPT !.stats.min = VMul(@, versor),
                           !.stats.max = VMul(@, versor),
                           !.stats.size = VMul(@, versor),
                           !.stats.volume =
                               IF @ > 0
                               THEN @ * (versor[1] * versor[2] * versor[3])
                               ELSE @,
                           !.facet_start = MapVertices(s, Scale)])

\* v_dst = trafo3x4 * (v_src, 1): rows 0..2 of a 3x4 matrix given row by row.
Apply3x4(m, v) ==
    <<m[1] * v[1] + m[2]  * v[2] + m[3]  * v[3] + m[4],
      m[5] * v[1] + m[6]  * v[2] + m[7]  * v[3] + m[8],
      m[9] * v[1] + m[10] * v[2] + m[11] * v[3] + m[12]>>

\* stl_transform(stl_file*, float *trafo3x4)
StlTransform(s, trafo3x4) ==
    IF s.error THEN s
    ELSE LET T(v) == Apply3x4(trafo3x4, v)
         IN  CalculateNormals(StlGetSize(
                 [s EXCEPT !.facet_start = MapVertices(s, T)]))

\* stl_transform(stl_file*, const Eigen::Transform&): the same map, applied
\* to all vertices as one matrix product; nothing is done on an empty mesh.
StlTransformEigen(s, t) ==
    IF s.error THEN s
    ELSE IF 3 * NumFacets(s) = 0 THEN s
    ELSE LET T(v) == Apply3x4(t, v)
         IN  CalculateNormals(StlGetSize(
                 [s EXCEPT !.facet_start = MapVertices(s, T)]))

\* cos and sin of the angles the model rotates by.
Cos(angle) == CASE angle % 360 = 0   -> 1
                [] angle % 360 = 90  -> 0
                [] angle % 360 = 180 -> -1
                [] angle % 360 = 270 -> 0

Sin(angle) == CASE angle % 360 = 0   -> 0
                [] angle % 360 = 90  -> 1
                [] angle % 360 = 180 -> 0
                [] angle % 360 = 270 -> -1

\* static stl_rotate(&x, &y, c, s): the pair (x, y) turned.
StlRotate(x, y, c, sn) == <<c * x - sn * y, sn * x + c * y>>

StlRotateX(s, angle) ==
    IF s.error THEN s
    ELSE LET R(v) == LET r == StlRotate(v[2], v[3], Cos(angle), Sin(angle))
                     IN  <<v[1], r[1], r[2]>>
         IN  CalculateNormals(StlGetSize(
                 [s EXCEPT !.facet_start = MapVertices(s, R)]))

StlRotateY(s, angle) ==
    IF s.error THEN s
    ELSE LET R(v) == LET r == StlRotate(v[3], v[1], Cos(angle), Sin(angle))
                     IN  <<r[2], v[2], r[1]>>
         IN  CalculateNormals(StlGetSize(
                 [s EXCEPT !.facet_start = MapVertices(s, R)]))

StlRotateZ(s, angle) ==
    IF s.error THEN s
    ELSE LET R(v) == LET r == StlRotate(v[1], v[2], Cos(angle), Sin(angle))
                     IN  <<r[1], r[2], v[3]>>
         IN  CalculateNormals(StlGetSize(
                 [s EXCEPT !.facet_start = MapVertices(s, R)]))

\* A mirror that leaves its reversal counted in stats.facets_reversed.
MirrorAxisCounted(s, k) ==
    LET Neg(v) == [v EXCEPT ![k] = -1 * @]
    IN  StlReverseAllFacets(
            [s EXCEPT !.facet_start = MapVertices(s, Neg),
                      !.stats.min[k] = -1 * s.stats.max[k],
                      !.stats.max[k] = -1 * s.stats.min[k]])

\* The body shared by stl_mirror_xy (k = 3), stl_mirror_yz (k = 1) and
\* stl_mirror_xz (k = 2): coordinate k of every vertex negated, stats.min
\* and stats.max of that axis exchanged and negated, all facets reversed,
\* and the reversal taken back out of stats.facets_reversed.
MirrorAxis(s, k) ==
    LET Neg(v) == [v EXCEPT ![k] = -1 * @]
        m == [s EXCEPT !.facet_start = MapVertices(s, Neg),
                       !.stats.min[k] = -1 * s.stats.max[k],
                       !.stats.max[k] = -1 * s.stats.min[k]]
        r == StlReverseAllFacets(m)
    IN  [r EXCEPT !.stats.facets_reversed = @ - NumFacets(r)]

StlMirrorXY(s) == IF s.error THEN s ELSE MirrorAxis(s, 3)

StlMirrorYZ(s) == IF s.error THEN s ELSE MirrorAxis(s, 1)

StlMirrorXZ(s) == IF s.error THEN s ELSE MirrorAxis(s, 2)

---------------------------------------------------------------------------
(* get_area, get_volume, stl_calculate_volume                              *)

\* get_area, doubled: n . (v0 x v1 + v1 x v2 + v2 x v0), n the unit normal
\* recomputed from the vertices.
GetArea2(facet) ==
    LET sum == VAdd(VAdd(Cross(facet.vertex[1], facet.vertex[2]),
                         Cross(facet.vertex[2], facet.vertex[3])),
                    Cross(facet.vertex[3], facet.vertex[1]))
        n   == StlNormalizeVector(StlCalculateNormal(facet))
    IN  Dot(n, sum)

RECURSIVE VolumeLoop(_, _, _)
\* The sum over facets 0..n-1 of area * height / 3, in sixths.
VolumeLoop(s, p0, n) ==
    IF n = 0 THEN 0
    ELSE LET f      == s.facet_start[n]
             height == Dot(f.normal, VSub(f.vertex[1], p0))
         IN  VolumeLoop(s, p0, n - 1) + GetArea2(f) * height

\* get_volume reads facet_start[0].vertex[0] before its loop, whatever the
\* number of facets.
VolumeReadsOutOfBounds(s) == ~s.error /\ NumFacets(s) = 0

\* get_volume, in sixths.  On an empty mesh the reference point is whatever
\* the out-of-bounds read returned; the loop never uses it.
GetVolume(s) ==
    IF s.error THEN 0
    ELSE IF NumFacets(s) = 0 THEN 0
    ELSE VolumeLoop(s, Vtx(s, 0, 0), NumFacets(s))

\* A volume computation that takes the absolute value without turning the
\* facets over.
StlCalculateVolumeNoReverse(s) ==
    IF s.error THEN s
    ELSE [s EXCEPT !.stats.volume = Abs(GetVolume(s))]

\* stl_calculate_volume, when the read of the reference point returns.
StlCalculateVolume(s) ==
    IF s.error THEN s
    ELSE LET v == GetVolume(s)
         IN  IF v < 0
             THEN [StlReverseAllFacets(s) EXCEPT !.stats.volume = -v]
             ELSE [s EXCEPT !.stats.volume = v]

---------------------------------------------------------------------------
(* The repair collaborators stl_repair calls (connect.cpp, normals.cpp):   *)
(* each is the set of meshes a call may leave.  All of them return at once *)
(* on a mesh whose error flag is set.                                      *)

EdgeSlots(s) == {<<k, m>> : k \in 0..(NumFacets(s) - 1), m \in 0..2}

SlotMin(S) == CHOOSE a \in S : \A b \in S : 3 * a[1] + a[2] <= 3 * b[1] + b[2]

\* The neighbour entry of edge j of facet i by exact coordinate match: the
\* first edge of another facet with the same two end points, entered with
\* offset < 3 when it runs the other way and offset >= 3 when it runs the
\* same way.
ExactEntry(s, i, j) ==
    LET a   == EdgeA(s, i, j)
        rev == {e \in EdgeSlots(s) :
                   e[1] # i /\ EdgeA(s, e[1], e[2]) = <<a[2], a[1]>>}
        fwd == {e \in EdgeSlots(s) : e[1] # i /\ EdgeA(s, e[1], e[2]) = a}
    IN  IF rev # {}
        THEN [neighbor |-> SlotMin(rev)[1], vnot |-> (SlotMin(rev)[2] + 2) % 3]
        ELSE IF fwd # {}
        THEN [neighbor |-> SlotMin(fwd)[1],
              vnot |-> ((SlotMin(fwd)[2] + 2) % 3) + 3]
        ELSE [neighbor |-> -1, vnot |-> -1]

ExactNeighbors(s) ==
    [i \in 1..NumFacets(s) |->
        [neighbor |-> <<ExactEntry(s, i - 1, 0).neighbor,
                        ExactEntry(s, i - 1, 1).neighbor,
                        ExactEntry(s, i - 1, 2).neighbor>>,
         which_vertex_not |-> <<ExactEntry(s, i - 1, 0).vnot,
                                ExactEntry(s, i - 1, 1).vnot,
                                ExactEntry(s, i - 1, 2).vnot>>]]

\* How many of the three edges of neighbour row r are connected.
ConnectedEdges(r) == Cardinality({j \in 1..3 : r.neighbor[j] # -1})

\* Facets of table N with at least k connected edges.
ConnectedFacets(N, k) ==
    Cardinality({i \in 1..Len(N) : ConnectedEdges(N[i]) >= k})

\* stl_check_facets_exact: the neighbour table rebuilt from exact matches,
\* the connected-facet counts set from it.
StlCheckFacetsExact(s) ==
    IF s.error THEN {s}
    ELSE LET N == ExactNeighbors(s)
         IN  {[s EXCEPT !.neighbors_start = N,
                        !.stats.connected_facets_1_edge = ConnectedFacets(N, 1),
                        !.stats.connected_facets_2_edge = ConnectedFacets(N, 2),
                        !.stats.connected_facets_3_edge = ConnectedFacets(N, 3)]}

\* Edges still unconnected according to the connected-facet counts.
OpenEdges(s) ==
    3 * NumFacets(s) - (s.stats.connected_facets_1_edge
                        + s.stats.connected_facets_2_edge
                        + s.stats.connected_facets_3_edge)

\* stl_check_facets_nearby(stl, tolerance): an attempt; it connects nothing,
\* or every open edge, and adds what it connected to stats.edges_fixed.
StlCheckFacetsNearby(s, tolerance) ==
    IF s.error THEN {s}
    ELSE {s,
          [s EXCEPT !.stats.connected_facets_1_edge = NumFacets(s),
                    !.stats.connected_facets_2_edge = NumFacets(s),
                    !.stats.connected_facets_3_edge = NumFacets(s),
                    !.stats.edges_fixed = @ + OpenEdges(s)]}

\* The facets of s that have no connected edge, as 1-based indices.
Unconnected(s) ==
    {i \in 1..NumFacets(s) : ConnectedEdges(s.neighbors_start[i]) = 0}

\* The first n entries of sequence q without those whose index is in D.
Keep(q, D, n) ==
    LET Stays(i) == i \notin D
        kept == SelectSeq([i \in 1..n |-> i], Stays)
    IN  [k \in 1..Len(kept) |-> q[kept[k]]]

\* stl_remove_unconnected_facets: the facets without any connected edge are
\* deleted and both sequences compacted, or the mesh is left as it is with
\* the error flag set.
StlRemoveUnconnectedFacets(s) ==
    IF s.error THEN {s}
    ELSE LET D == Unconnected(s)
             Renumber(n) ==
                 IF n = -1 THEN -1
                 ELSE n - Cardinality({d \in D : d - 1 < n})
             rows == Keep(s.neighbors_start, D, NumFacets(s))
         IN  {[s EXCEPT !.error = TRUE],
              [s EXCEPT
                  !.facet_start = Keep(s.facet_start, D, NumFacets(s)),
                  !.neighbors_start =
                      [i \in 1..Len(rows) |->
                          [rows[i] EXCEPT
                              !.neighbor = <<Renumber(@[1]), Renumber(@[2]),
                                             Renumber(@[3])>>]],
                  !.stats.number_of_facets = @ - Cardinality(D)]}

\* stl_fill_holes: nothing could be closed, or one facet (the last facet,
\* turned over) is appended to both sequences and the mesh is then fully
\* connected, or the mesh is left as it is with the error flag set.
StlFillHoles(s) ==
    IF s.error THEN {s}
    ELSE {[s EXCEPT !.error = TRUE], s}
         \cup (IF NumFacets(s) = 0 THEN {}
               ELSE {[s EXCEPT
                   !.facet_start =
                       Append(@, StlReverseFacet(s.facet_start[NumFacets(s)])),
                   !.neighbors_start = Append(@, NoNeighbors),
                   !.stats.number_of_facets = @ + 1,
                   !.stats.connected_facets_1_edge = NumFacets(s) + 1,
                   !.stats.connected_facets_2_edge = NumFacets(s) + 1,
                   !.stats.connected_facets_3_edge = NumFacets(s) + 1]})

\* stl_fix_normal_directions: single facets (never all) are turned over to
\* agree with their neighbours; here none, or the last one.
StlFixNormalDirections(s) ==
    IF s.error THEN {s}
    ELSE {s} \cup
         (IF NumFacets(s) < 2 THEN {}
          ELSE {[s EXCEPT
                    !.facet_start[NumFacets(s)] = StlReverseFacet(@),
                    !.stats.facets_reversed = @ + 1]})

\* stl_fix_normal_values: every normal recomputed from the vertices.
StlFixNormalValues(s) == CalculateNormals(s)

---------------------------------------------------------------------------
(* Meshes the operations are run on: what a loader followed by an exact    *)
(* check leaves.                                                           *)

\* The stl_file of facets F as loaded: extents from the vertices, no volume
\* computed yet (the loader leaves -1.0 there), neighbour table and
\* connected counts from the exact check.
Loaded(F) ==
    LET raw == [facet_start |-> F,
                neighbors_start |-> [i \in 1..Len(F) |-> NoNeighbors],
                stats |-> [number_of_facets |-> Len(F),
                           min |-> Zero3, max |-> Zero3, size |-> Zero3,
                           bounding_diameter |-> 0,
                           shortest_edge |-> IF F = <<>> THEN 0 ELSE 1,
                           volume |-> -6,
                           connected_facets_1_edge |-> 0,
                           connected_facets_2_edge |-> 0,
                           connected_facets_3_edge |-> 0,
                           facets_w_1_bad_edge |-> 0,
                           facets_w_2_bad_edge |-> 0,
                           facets_w_3_bad_edge |-> 0,
                           backwards_edges |-> 0,
                           edges_fixed |-> 0,
                           facets_reversed |-> 0],
                error |-> FALSE,
                v_shared |-> TRUE]
    IN  CHOOSE s \in StlCheckFacetsExact(StlGetSize(raw)) : TRUE

Triangle == <<FacetOf(<<0, 0, 0>>, <<2, 0, 0>>, <<0, 2, 0>>)>>

\* The same triangle with its stored normal pointing against its winding.
TriangleBadNormal == <<Facet(<<0, 0, 0>>, <<2, 0, 0>>, <<0, 2, 0>>, <<0, 0, -1>>)>>

\* Two facets that share no edge.
OpenPair == <<FacetOf(<<0, 0, 0>>, <<2, 0, 0>>, <<0, 2, 0>>),
              FacetOf(<<1, 0, 0>>, <<1, 1, 0>>, <<1, 0, 1>>)>>

\* Two facets back to back: every edge shared, wound consistently.
Pillow == <<FacetOf(<<0, 0, 0>>, <<2, 0, 0>>, <<0, 2, 0>>),
            FacetOf(<<2, 0, 0>>, <<0, 0, 0>>, <<0, 2, 0>>)>>

\* Two facets sharing one edge, wound consistently.
Hinge == <<FacetOf(<<0, 0, 0>>, <<2, 0, 0>>, <<0, 2, 0>>),
           FacetOf(<<2, 0, 0>>, <<0, 0, 0>>, <<0, -2, 0>>)>>

\* Two facets sharing one edge that both run through in the same direction.
ForwardPair == <<FacetOf(<<0, 0, 0>>, <<2, 0, 0>>, <<0, 2, 0>>),
                 FacetOf(<<0, 0, 0>>, <<2, 0, 0>>, <<0, -2, 0>>)>>

\* Two degenerate facets sharing an edge whose two end points coincide.
DegeneratePair == <<FacetOf(<<0, 0, 0>>, <<1, 0, 0>>, <<1, 0, 0>>),
                    FacetOf(<<1, 0, 0>>, <<1, 0, 0>>, <<1, 1, 0>>)>>

\* The unit cube, twelve facets wound outwards.
Cube == <<FacetOf(<<0, 0, 0>>, <<0, 1, 0>>, <<1, 1, 0>>),
          FacetOf(<<0, 0, 0>>, <<1, 1, 0>>, <<1, 0, 0>>),
          FacetOf(<<0, 0, 1>>, <<1, 1, 1>>, <<0, 1, 1>>),
          FacetOf(<<0, 0, 1>>, <<1, 0, 1>>, <<1, 1, 1>>),
          FacetOf(<<0, 0, 0>>, <<1, 0, 0>>, <<1, 0, 1>>),
          FacetOf(<<0, 0, 0>>, <<1, 0, 1>>, <<0, 0, 1>>),
          FacetOf(<<0, 1, 0>>, <<1, 1, 1>>, <<1, 1, 0>>),
          FacetOf(<<0, 1, 0>>, <<0, 1, 1>>, <<1, 1, 1>>),
          FacetOf(<<0, 0, 0>>, <<0, 0, 1>>, <<0, 1, 1>>),
          FacetOf(<<0, 0, 0>>, <<0, 1, 1>>, <<0, 1, 0>>),
          FacetOf(<<1, 0, 0>>, <<1, 1, 1>>, <<1, 0, 1>>),
          FacetOf(<<1, 0, 0>>, <<1, 1, 0>>, <<1, 1, 1>>)>>

SmallMeshes == {<<>>, Triangle, TriangleBadNormal, OpenPair, Pillow,
                ForwardPair, DegeneratePair}

\* The connected edges (facet i, edge j), 0-based, of mesh s.
PresentEntries(s) ==
    {e \in EdgeSlots(s) : s.neighbors_start[e[1] + 1].neighbor[e[2] + 1] # -1}

\* Mesh s with the offset of entry e moved from r to r + 3.
Corrupted(s, e) ==
    [s EXCEPT !.neighbors_start[e[1] + 1].which_vertex_not[e[2] + 1] = @ + 3]

\* Loaded small meshes, each also with one entry below 3 changed to the
\* forward-orientation offset.
WithCorruption(F) ==
    {Loaded(F)} \cup
    {Corrupted(Loaded(F), e) :
        e \in {x \in PresentEntries(Loaded(F)) :
                  Loaded(F).neighbors_start[x[1] + 1].which_vertex_not[x[2] + 1] < 3}}

\* A mesh whose loader failed: the error flag is set.
Failed(s) == [s EXCEPT !.error = TRUE]

NoCall == [fixall_flag |-> FALSE, exact_flag |-> FALSE,
           tolerance_flag |-> FALSE, tolerance |-> 0,
           increment_flag |-> FALSE, increment |-> 0,
           nearby_flag |-> FALSE, iterations |-> 0,
           remove_unconnected_flag |-> FALSE, fill_holes_flag |-> FALSE,
           normal_directions_flag |-> FALSE, normal_values_flag |-> FALSE,
           reverse_all_flag |-> FALSE]

InitRest ==
    /\ pc = "idle"
    /\ call = [args |-> NoCall, exact_flag |-> FALSE, tolerance |-> 0,
               increment |-> 0, i |-> 0]
    /\ trace = <<>>
    /\ report = <<>>
    /\ fault = "none"
    /\ hist = <<>>

\* Meshes whose loader failed, and meshes on which a repair stage can fail.
Init ==
    /\ stl \in {Failed(Loaded(F)) : F \in {<<>>, Triangle, Pillow}}
               \cup {Loaded(F) : F \in {Triangle, OpenPair}}
    /\ InitRest

---------------------------------------------------------------------------
(* The operations as steps.  A step taken from "idle" is one call of a     *)
(* utility function; stl_repair is walked through stage by stage.          *)

\* Operations applied in one run of the model.
MaxOps == 2

\* Largest iteration count a repair call is made with.
MaxIter == 2

Idle == pc = "idle" /\ fault # "crash" /\ Len(hist) < MaxOps

Record(op, arg) == hist' = <<[op |-> op, arg |-> arg, before |-> stl]>> \o hist

\* One call op(arg) that leaves mesh s2.
Apply(op, arg, s2) ==
    /\ Idle
    /\ stl' = s2
    /\ Record(op, arg)
    /\ UNCHANGED <<pc, call, trace, report, fault>>

Points == {<<1, -1, 2>>}

Shifts == {<<1, 0, -1>>}

Versors == {<<2, 1, 3>>, <<1, 0, 1>>, <<-1, 1, 1>>}

Angles == {90, 180}

\* 3x4 matrices, row by row: a quarter turn about z followed by a shift, and
\* a reflection in x with a stretch in z.
QuarterTurnShift == <<0, -1, 0, 1,   1, 0, 0, 0,   0, 0, 1, -1>>

ReflectStretch == <<-1, 0, 0, 0,   0, 1, 0, 0,   0, 0, 2, 0>>

VerifyNeighbors ==
    /\ Idle
    /\ stl' = StlVerifyNeighbors(stl)
    /\ report' = VerifyLines(stl)
    /\ Record("stl_verify_neighbors", <<>>)
    /\ UNCHANGED <<pc, call, trace, fault>>

Translate == \E p \in Points :
    Apply("stl_translate", p, StlTranslate(stl, p[1], p[2], p[3]))

TranslateRelative == \E d \in Shifts :
    Apply("stl_translate_relative", d, StlTranslateRelative(stl, d[1], d[2], d[3]))

ScaleVersor == \E v \in Versors :
    Apply("stl_scale_versor", v, StlScaleVersor(stl, v))

Transform == \E m \in {QuarterTurnShift} :
    Apply("stl_transform", m, StlTransform(stl, m))

TransformEigen == \E m \in {ReflectStretch} :
    Apply("stl_transform_eigen", m, StlTransformEigen(stl, m))

RotateX == \E a \in Angles : Apply("stl_rotate_x", a, StlRotateX(stl, a))

RotateY == \E a \in {90} : Apply("stl_rotate_y", a, StlRotateY(stl, a))

RotateZ == \E a \in {270} : Apply("stl_rotate_z", a, StlRotateZ(stl, a))

GetSize == Apply("stl_get_size", <<>>, StlGetSize(stl))

MirrorXY == Apply("stl_mirror_xy", <<>>, StlMirrorXY(stl))

MirrorYZ == Apply("stl_mirror_yz", <<>>, StlMirrorYZ(stl))

MirrorXZ == Apply("stl_mirror_xz", <<>>, StlMirrorXZ(stl))

\* What the read of facet_start[0] in get_volume leads to on mesh s: nothing
\* special when the facet exists; on an empty mesh the read is out of
\* bounds, and the call either dies there or goes on with a value it never
\* uses.
VolumeReadOutcomes(s) ==
    IF VolumeReadsOutOfBounds(s) THEN {"crash", "oob_read"} ELSE {fault}

CalculateVolume ==
    /\ Idle
    /\ \E o \in VolumeReadOutcomes(stl) :
          /\ fault' = o
          /\ stl' = IF o = "crash" THEN stl ELSE StlCalculateVolume(stl)
    /\ Record("stl_calculate_volume", <<>>)
    /\ UNCHANGED <<pc, call, trace, report>>

---------------------------------------------------------------------------
(* stl_repair                                                              *)

\* An entry of trace: the stage invoked, the tolerance handed to a nearby
\* stitch, and the signed volume get_volume returned to a volume stage.
Stage(name, tolerance, volume) ==
    [stage |-> name, tolerance |-> tolerance, volume |-> volume]

Flags(fixall, exact, nearby, remove, fill, directions, values, reverse) ==
    [NoCall EXCEPT !.fixall_flag = fixall, !.exact_flag = exact,
                   !.nearby_flag = nearby, !.remove_unconnected_flag = remove,
                   !.fill_holes_flag = fill, !.normal_directions_flag = directions,
                   !.normal_values_flag = values, !.reverse_all_flag = reverse]

\* Every flag combination.  The tolerance, increment and iteration
\* arguments are only read when nearby_flag or fixall_flag is set, and are
\* varied only then; the caller's tolerance is 5 and its increment 3 (in
\* 1/10000 units).
AllCalls ==
    {Flags(FALSE, e, FALSE, r, f, d, v, a) :
        e \in BOOLEAN, r \in BOOLEAN, f \in BOOLEAN, d \in BOOLEAN,
        v \in BOOLEAN, a \in BOOLEAN}
    \cup
    {c \in {[Flags(x, e, n, r, f, d, v, a) EXCEPT
                !.tolerance_flag = tf, !.tolerance = 5,
                !.increment_flag = inf, !.increment = 3,
                !.iterations = it] :
               x \in BOOLEAN, e \in BOOLEAN, n \in BOOLEAN, r \in BOOLEAN,
               f \in BOOLEAN, d \in BOOLEAN, v \in BOOLEAN, a \in BOOLEAN,
               tf \in BOOLEAN, inf \in BOOLEAN, it \in -1..MaxIter} :
        c.fixall_flag \/ c.nearby_flag}

\* Two calls: fix_all with one nearby round, and reverse_all alone.
FewCalls ==
    {[Flags(TRUE, FALSE, FALSE, FALSE, FALSE, FALSE, FALSE, FALSE)
         EXCEPT !.iterations = 1],
     Flags(FALSE, FALSE, FALSE, FALSE, FALSE, FALSE, FALSE, TRUE)}

\* Entry of stl_repair with arguments from Calls: the locals are set up; on
\* a mesh with the error flag set the call returns at once.
RepairEnter(Calls) ==
    /\ pc = "idle"
    /\ fault # "crash"
    /\ \E a \in Calls :
          /\ call' = [args |-> a, exact_flag |-> a.exact_flag,
                      tolerance |-> a.tolerance, increment |-> a.increment,
                      i |-> 0]
          /\ Record("stl_repair", a)
    /\ trace' = <<>>
    /\ pc' = IF stl.error THEN "idle" ELSE "exact"
    /\ UNCHANGED <<stl, report, fault>>

StlRepair == Len(hist) < MaxOps /\ RepairEnter(FewCalls)

\* Stage 1: the exact check and the bad-edge counts derived from it.
RepairExact ==
    /\ pc = "exact"
    /\ IF \/ call.exact_flag \/ call.args.fixall_flag \/ call.args.nearby_flag
          \/ call.args.remove_unconnected_flag \/ call.args.fill_holes_flag
          \/ call.args.normal_directions_flag
       THEN /\ call' = [call EXCEPT !.exact_flag = TRUE]
            /\ \E r \in StlCheckFacetsExact(stl) :
                  stl' = [r EXCEPT
                      !.stats.facets_w_1_bad_edge =
                          r.stats.connected_facets_2_edge
                              - r.stats.connected_facets_3_edge,
                      !.stats.facets_w_2_bad_edge =
                          r.stats.connected_facets_1_edge
                              - r.stats.connected_facets_2_edge,
                      !.stats.facets_w_3_bad_edge =
                          r.stats.number_of_facets
                              - r.stats.connected_facets_1_edge]
            /\ trace' = Append(trace, Stage("exact_check", 0, 0))
       ELSE UNCHANGED <<call, stl, trace>>
    /\ pc' = "nearby"
    /\ UNCHANGED <<report, fault, hist>>

FullyConnected(s) ==
    ~(s.stats.connected_facets_3_edge < s.stats.number_of_facets)

\* Stage 2, before the loop: the defaults of tolerance and increment.
RepairNearby ==
    /\ pc = "nearby"
    /\ IF call.args.nearby_flag \/ call.args.fixall_flag
       THEN /\ call' = [call EXCEPT
                   !.tolerance = IF call.args.tolerance_flag THEN @
                                 ELSE 10000 * stl.stats.shortest_edge,
                   !.increment = IF call.args.increment_flag THEN @
                                 ELSE stl.stats.bounding_diameter,
                   !.i = 0]
            /\ pc' = IF FullyConnected(stl) THEN "remove" ELSE "loop"
       ELSE /\ pc' = "remove"
            /\ UNCHANGED call
    /\ UNCHANGED <<stl, trace, report, fault, hist>>

\* A loop that hands every round the same tolerance.
RepairNearbyLoopFixedTolerance ==
    /\ pc = "loop"
    /\ IF call.i < call.args.iterations /\ ~FullyConnected(stl)
       THEN /\ \E r \in StlCheckFacetsNearby(stl, call.tolerance) : stl' = r
            /\ trace' = Append(trace, Stage("nearby_stitch", call.tolerance, 0))
            /\ call' = [call EXCEPT !.i = @ + 1]
            /\ pc' = "loop"
       ELSE /\ pc' = "remove"
            /\ UNCHANGED <<stl, trace, call>>
    /\ UNCHANGED <<report, fault, hist>>

\* A loop that runs all its rounds whatever the connectivity.
RepairNearbyLoopNoBreak ==
    /\ pc = "loop"
    /\ IF call.i < call.args.iterations
       THEN /\ \E r \in StlCheckFacetsNearby(stl, call.tolerance) : stl' = r
            /\ trace' = Append(trace, Stage("nearby_stitch", call.tolerance, 0))
            /\ call' = [call EXCEPT !.tolerance = @ + call.increment,
                                    !.i = @ + 1]
            /\ pc' = "loop"
       ELSE /\ pc' = "remove"
            /\ UNCHANGED <<stl, trace, call>>
    /\ UNCHANGED <<report, fault, hist>>

\* Stage 2, one round of for(i = 0; i < iterations; i++).
RepairNearbyLoop ==
    /\ pc = "loop"
    /\ IF call.i < call.args.iterations /\ ~FullyConnected(stl)
       THEN /\ \E r \in StlCheckFacetsNearby(stl, call.tolerance) : stl' = r
            /\ trace' = Append(trace, Stage("nearby_stitch", call.tolerance, 0))
            /\ call' = [call EXCEPT !.tolerance = @ + call.increment,
                                    !.i = @ + 1]
            /\ pc' = "loop"
       ELSE /\ pc' = "remove"
            /\ UNCHANGED <<stl, trace, call>>
    /\ UNCHANGED <<report, fault, hist>>

\* Stage 3.
RepairRemove ==
    /\ pc = "remove"
    /\ IF (\/ call.args.remove_unconnected_flag \/ call.args.fixall_flag
           \/ call.args.fill_holes_flag) /\ ~FullyConnected(stl)
       THEN /\ \E r \in StlRemoveUnconnectedFacets(stl) : stl' = r
            /\ trace' = Append(trace, Stage("remove_unconnected", 0, 0))
       ELSE UNCHANGED <<stl, trace>>
    /\ pc' = "fill"
    /\ UNCHANGED <<call, report, fault, hist>>

\* Stage 4.
RepairFill ==
    /\ pc = "fill"
    /\ IF (call.args.fill_holes_flag \/ call.args.fixall_flag)
          /\ ~FullyConnected(stl)
       THEN /\ \E r \in StlFillHoles(stl) : stl' = r
            /\ trace' = Append(trace, Stage("fill_holes", 0, 0))
       ELSE UNCHANGED <<stl, trace>>
    /\ pc' = "reverse"
    /\ UNCHANGED <<call, report, fault, hist>>

\* Stage 5.
RepairReverse ==
    /\ pc = "reverse"
    /\ IF call.args.reverse_all_flag
       THEN /\ stl' = StlReverseAllFacets(stl)
            /\ trace' = Append(trace, Stage("reverse_all_facets", 0, 0))
       ELSE UNCHANGED <<stl, trace>>
    /\ pc' = "directions"
    /\ UNCHANGED <<call, report, fault, hist>>

\* Stage 6.
RepairNormalDirections ==
    /\ pc = "directions"
    /\ IF call.args.normal_directions_flag \/ call.args.fixall_flag
       THEN /\ \E r \in StlFixNormalDirections(stl) : stl' = r
            /\ trace' = Append(trace, Stage("propagate_normal_directions", 0, 0))
       ELSE UNCHANGED <<stl, trace>>
    /\ pc' = "values"
    /\ UNCHANGED <<call, report, fault, hist>>

\* Stage 7.
RepairNormalValues ==
    /\ pc = "values"
    /\ IF call.args.normal_values_flag \/ call.args.fixall_flag
       THEN /\ stl' = StlFixNormalValues(stl)
            /\ trace' = Append(trace, Stage("fix_normal_values", 0, 0))
       ELSE UNCHANGED <<stl, trace>>
    /\ pc' = "volume"
    /\ UNCHANGED <<call, report, fault, hist>>

\* Stage 8: always.
RepairVolume ==
    /\ pc = "volume"
    /\ fault # "crash"
    /\ trace' = Append(trace, Stage("calculate_volume", 0, GetVolume(stl)))
    /\ \E o \in VolumeReadOutcomes(stl) :
          /\ fault' = o
          /\ stl' = IF o = "crash" THEN stl ELSE StlCalculateVolume(stl)
          /\ pc' = IF o = "crash" THEN "volume" ELSE "verify"
    /\ UNCHANGED <<call, report, hist>>

\* Stage 9, and the return.
RepairVerify ==
    /\ pc = "verify"
    /\ fault # "crash"
    /\ IF call.exact_flag
       THEN /\ stl' = StlVerifyNeighbors(stl)
            /\ report' = VerifyLines(stl)
            /\ trace' = Append(trace, Stage("verify", 0, 0))
       ELSE UNCHANGED <<stl, report, trace>>
    /\ pc' = "idle"
    /\ UNCHANGED <<call, fault, hist>>

RepairStep ==
    \/ RepairExact
    \/ RepairNearby
    \/ RepairNearbyLoop
    \/ RepairRemove
    \/ RepairFill
    \/ RepairReverse
    \/ RepairNormalDirections
    \/ RepairNormalValues
    \/ RepairVolume
    \/ RepairVerify

Next ==
    \/ VerifyNeighbors
    \/ Translate
    \/ TranslateRelative
    \/ ScaleVersor
    \/ Transform
    \/ TransformEigen
    \/ RotateX
    \/ RotateY
    \/ RotateZ
    \/ GetSize
    \/ MirrorXY
    \/ MirrorYZ
    \/ MirrorXZ
    \/ CalculateVolume
    \/ StlRepair
    \/ RepairStep

Spec == Init /\ [][Next]_vars

\* The operations that move vertices or recompute the extents, on every
\* small mesh.
InitGeometry ==
    /\ stl \in {Loaded(F) : F \in SmallMeshes}
    /\ InitRest

NextGeometry ==
    \/ Translate
    \/ TranslateRelative
    \/ ScaleVersor
    \/ Transform
    \/ TransformEigen
    \/ RotateX
    \/ RotateY
    \/ RotateZ
    \/ GetSize
    \/ MirrorXY
    \/ MirrorYZ
    \/ MirrorXZ

SpecGeometry == InitGeometry /\ [][NextGeometry]_vars

\* The verification pass on meshes with and without one entry changed to
\* the forward-orientation offset, between operations that move vertices or
\* turn facets over.
InitVerify ==
    /\ stl \in {[s EXCEPT !.stats.backwards_edges = k] :
                  s \in UNION {WithCorruption(F) : F \in SmallMeshes \cup {Hinge}}
                          \cup {Loaded(Cube), Failed(Loaded(Pillow))},
                  k \in {0, 1}}
    /\ InitRest

NextVerify ==
    \/ VerifyNeighbors
    \/ TranslateRelative
    \/ ScaleVersor
    \/ MirrorXY

SpecVerify == InitVerify /\ [][NextVerify]_vars

\* One repair call, with any arguments, on a loaded mesh.
InitRepair ==
    /\ stl \in {Loaded(F) : F \in SmallMeshes \cup {Cube}}
               \cup {Failed(Loaded(Triangle))}
    /\ InitRest

StlRepairAny == hist = <<>> /\ RepairEnter(AllCalls)

NextRepair == StlRepairAny \/ RepairStep

SpecRepair == InitRepair /\ [][NextRepair]_vars

---------------------------------------------------------------------------
(* Properties.  hist[1] is the operation applied last, with the mesh it    *)
(* was applied to.                                                         *)

\* Entry e = <<facet, edge>> of the neighbour table of s.
Offset(s, e) == s.neighbors_start[e[1] + 1].which_vertex_not[e[2] + 1]

NeighborOf(s, e) == s.neighbors_start[e[1] + 1].neighbor[e[2] + 1]

\* Entry e has an offset r below 3 and its edge equals, point for point,
\* the edge (vertex (r+2)%3, vertex (r+1)%3) of the neighbour.
ReverseMatched(s, e) ==
    LET n == NeighborOf(s, e)
        r == Offset(s, e)
    IN  /\ r < 3
        /\ Vtx(s, e[1], e[2]) = Vtx(s, n, (r + 2) % 3)
        /\ Vtx(s, e[1], (e[2] + 1) % 3) = Vtx(s, n, (r + 1) % 3)

CleanTable(s) == \A e \in PresentEntries(s) : ReverseMatched(s, e)

\* The last operation was stl_verify_neighbors on a mesh without error.
VerifiedNow ==
    /\ hist # <<>>
    /\ hist[1].op = "stl_verify_neighbors"
    /\ ~hist[1].before.error

\* C1: on a mesh whose error flag is set every operation is a no-op: the
\* mesh (facets, neighbour table, statistics, flags) is left exactly as it
\* was, no facet is read out of bounds, and a repair call entered then
\* returns at once without invoking any stage.
C1_ErrorMakesEveryOperationANoOp ==
    [][stl.error =>
          /\ stl' = stl
          /\ fault' = fault
          /\ (pc = "idle" /\ hist' # hist /\ hist'[1].op = "stl_repair")
                 => (pc' = "idle" /\ trace' = <<>>)]_vars

\* A failed mesh that went through another operation and then through a
\* repair call with fix_all.
C1_Witness ==
    /\ Len(hist) = 2
    /\ hist[2].before.error
    /\ hist[2].op # "stl_repair"
    /\ hist[1].op = "stl_repair"
    /\ hist[1].arg.fixall_flag
    /\ stl.error
    /\ stl = hist[2].before
    /\ pc = "idle"

\* C6: after stl_verify_neighbors on a mesh without error,
\* stats.backwards_edges is the number of connected entries whose offset is
\* 3 or more, whatever it was before; nothing else of the mesh changes; no
\* boundary entry (neighbour -1) is ever reported; and if every connected
\* entry has an offset below 3 and matches in reverse, nothing is reported
\* and the count is 0.
C6_VerifyOnCleanTable ==
    VerifiedNow =>
        LET b == hist[1].before
        IN  /\ stl = [b EXCEPT !.stats.backwards_edges =
                         Cardinality({e \in PresentEntries(b) : Offset(b, e) >= 3})]
            /\ \A k \in 1..Len(report) :
                   <<report[k].facet, report[k].edge>> \in PresentEntries(b)
            /\ CleanTable(b) => (report = <<>> /\ stl.stats.backwards_edges = 0)

\* A pass over a clean table that has connected and boundary entries and
\* came with a count left over from before.
C6_Witness ==
    /\ VerifiedNow
    /\ CleanTable(hist[1].before)
    /\ PresentEntries(hist[1].before) # {}
    /\ PresentEntries(hist[1].before) # EdgeSlots(hist[1].before)
    /\ hist[1].before.stats.backwards_edges = 1
    /\ stl.stats.backwards_edges = 0
    /\ report = <<>>

\* Table of b with the offset of entry e lowered by 3.
Restored(b, e) ==
    [b EXCEPT !.neighbors_start[e[1] + 1].which_vertex_not[e[2] + 1] = @ - 3]

\* Entry e of b carries an offset of 3 or more, and with that offset
\* lowered by 3 the whole table is clean.
OneCorruption(b, e) ==
    /\ e \in PresentEntries(b)
    /\ Offset(b, e) >= 3
    /\ CleanTable(Restored(b, e))

\* The line that names entry e of b.
LineFor(b, e) ==
    [edge |-> e[2], facet |-> e[1],
     nedge |-> Offset(b, e) + 1, neighbor |-> NeighborOf(b, e)]

\* C7 as stated: a clean table in which one entry's offset was changed from
\* r to r + 3 makes the pass report exactly one mismatch, for that entry,
\* and leave stats.backwards_edges = 1.
C7_OneCorruptionOneMismatch ==
    VerifiedNow =>
        \A e \in EdgeSlots(hist[1].before) :
            OneCorruption(hist[1].before, e) =>
                /\ report = <<LineFor(hist[1].before, e)>>
                /\ stl.stats.backwards_edges = 1

\* C7, amended: a clean table in which one entry's offset was changed from
\* r to r + 3 leaves stats.backwards_edges = 1; the pass reports exactly
\* one mismatch, for that entry, provided the two end points of its edge
\* differ, and reports nothing when they coincide.
C7_OneCorruptionOnProperEdge ==
    VerifiedNow =>
        \A e \in EdgeSlots(hist[1].before) :
            OneCorruption(hist[1].before, e) =>
                /\ stl.stats.backwards_edges = 1
                /\ report =
                       IF Vtx(hist[1].before, e[1], e[2])
                              # Vtx(hist[1].before, e[1], (e[2] + 1) % 3)
                       THEN <<LineFor(hist[1].before, e)>>
                       ELSE <<>>

\* A pass over a table with one changed entry on an edge with two distinct
\* end points, in a mesh that also has a facet after the one reported.
C7_Witness ==
    /\ VerifiedNow
    /\ \E e \in EdgeSlots(hist[1].before) :
          /\ OneCorruption(hist[1].before, e)
          /\ Vtx(hist[1].before, e[1], e[2])
                 # Vtx(hist[1].before, e[1], (e[2] + 1) % 3)
          /\ e[1] + 1 < NumFacets(hist[1].before)
    /\ Len(report) = 1
    /\ stl.stats.backwards_edges = 1

Mirrors == {"stl_mirror_xy", "stl_mirror_yz", "stl_mirror_xz"}

\* C8: a mirror leaves stats.facets_reversed and the number of facets as
\* they were, and the same mirror applied twice in a row restores every
\* vertex, every facet's winding and normal, stats.min and stats.max.
C8_MirrorTwiceRestores ==
    (hist # <<>> /\ hist[1].op \in Mirrors /\ ~hist[1].before.error) =>
        /\ stl.stats.facets_reversed = hist[1].before.stats.facets_reversed
        /\ NumFacets(stl) = NumFacets(hist[1].before)
        /\ (Len(hist) >= 2 /\ hist[2].op = hist[1].op) =>
               /\ stl.facet_start = hist[2].before.facet_start
               /\ stl.stats.min = hist[2].before.stats.min
               /\ stl.stats.max = hist[2].before.stats.max

\* The same mirror twice on a mesh of at least two facets that the first
\* mirror moved.
C8_Witness ==
    /\ Len(hist) = 2
    /\ hist[1].op = "stl_mirror_yz"
    /\ hist[2].op = "stl_mirror_yz"
    /\ ~stl.error
    /\ NumFacets(stl) >= 2
    /\ hist[1].before.facet_start # stl.facet_start
    /\ hist[1].before.stats.min # stl.stats.min

GeometryOps == Mirrors \cup
    {"stl_translate", "stl_translate_relative", "stl_scale_versor",
     "stl_rotate_x", "stl_rotate_y", "stl_rotate_z",
     "stl_transform", "stl_transform_eigen"}

OnlyGeometry == \A k \in 1..Len(hist) : hist[k].op \in GeometryOps

\* No scaling so far had a negative factor.
NoNegativeFactor ==
    \A k \in 1..Len(hist) :
        hist[k].op = "stl_scale_versor" => \A c \in 1..3 : hist[k].arg[c] >= 0

\* stats.min and stats.max of s are the component-wise least and greatest
\* coordinates over all vertices of s.
BoxIsExact(s) ==
    \A k \in 1..3 :
        /\ \E v \in Vertices(s) : v[k] = s.stats.min[k]
        /\ \E v \in Vertices(s) : v[k] = s.stats.max[k]
        /\ \A v \in Vertices(s) : s.stats.min[k] <= v[k] /\ v[k] <= s.stats.max[k]

\* C9: after any sequence of translations, scalings, mirrors,
\* rotations and transforms on a non-empty mesh without error, stats.min
\* and stats.max are the exact extents of the vertices, and right after a
\* translation to p stats.min is p.
C9_BoxFollowsEveryOperation ==
    (~stl.error /\ NumFacets(stl) > 0 /\ OnlyGeometry) =>
        /\ BoxIsExact(stl)
        /\ (hist # <<>> /\ hist[1].op = "stl_translate")
               => stl.stats.min = hist[1].arg

\* C9 without negative factors: the same holds of every sequence in which
\* no scaling has a negative factor.
C9_BoxFollowsWithoutNegativeScale ==
    (~stl.error /\ NumFacets(stl) > 0 /\ OnlyGeometry /\ NoNegativeFactor) =>
        /\ BoxIsExact(stl)
        /\ (hist # <<>> /\ hist[1].op = "stl_translate")
               => stl.stats.min = hist[1].arg

\* A scaling with a zero factor followed by a translation to a point.
C9_ZeroFactorThenTranslate ==
    /\ Len(hist) = 2
    /\ hist[2].op = "stl_scale_versor"
    /\ hist[2].arg = <<1, 0, 1>>
    /\ hist[1].op = "stl_translate"
    /\ ~stl.error
    /\ NumFacets(stl) >= 2
    /\ stl.stats.min # hist[2].before.stats.min
    /\ stl.stats.max # stl.stats.min

---------------------------------------------------------------------------
(* Properties of stl_repair, read off trace.                               *)

\* Stage name was invoked in the current / last repair call.
Ran(name) == \E k \in 1..Len(trace) : trace[k].stage = name

\* How many times.
Times(name) == Cardinality({k \in 1..Len(trace) : trace[k].stage = name})

\* Position of a stage in the fixed order.
StageRank(name) ==
    CASE name = "exact_check"                 -> 1
      [] name = "nearby_stitch"               -> 2
      [] name = "remove_unconnected"          -> 3
      [] name = "fill_holes"                  -> 4
      [] name = "reverse_all_facets"          -> 5
      [] name = "propagate_normal_directions" -> 6
      [] name = "fix_normal_values"           -> 7
      [] name = "calculate_volume"            -> 8
      [] name = "verify"                      -> 9

\* A repair call entered on a mesh without error has returned.
Returned ==
    /\ pc = "idle"
    /\ hist # <<>>
    /\ hist[1].op = "stl_repair"
    /\ ~hist[1].before.error

\* A repair call entered on a mesh without error is over: it has returned,
\* or it died in the volume stage.
CallOver ==
    /\ hist # <<>>
    /\ hist[1].op = "stl_repair"
    /\ ~hist[1].before.error
    /\ pc = "idle" \/ fault = "crash"

\* All facets were turned over this many times in the call: by stage 5,
\* and by the volume stage when the volume it computed was negative.
Reversals ==
    Times("reverse_all_facets")
    + Cardinality({k \in 1..Len(trace) :
                      trace[k].stage = "calculate_volume" /\ trace[k].volume < 0})

\* The stages invoked so far follow the fixed order exact_check,
\* nearby_stitch, remove_unconnected, fill_holes, reverse_all_facets,
\* propagate_normal_directions, fix_normal_values, calculate_volume,
\* verify, each but nearby_stitch at most once.
InFixedOrder ==
    \A k \in 1..Len(trace) : \A l \in 1..Len(trace) :
        k < l =>
            \/ StageRank(trace[k].stage) < StageRank(trace[l].stage)
            \/ /\ trace[k].stage = "nearby_stitch"
               /\ trace[l].stage = "nearby_stitch"

\* calculate_volume has run exactly once, verify has run (last) exactly
\* when exact_check has, and exact_check has run exactly when one of
\* exact, fix_all, nearby, remove_unconnected, fill_holes,
\* normal_directions was requested.
StagesOfWholeCall ==
    /\ Times("calculate_volume") = 1
    /\ Ran("verify") <=> Ran("exact_check")
    /\ Ran("verify") => trace[Len(trace)].stage = "verify"
    /\ Ran("exact_check") <=>
           \/ hist[1].arg.exact_flag
           \/ hist[1].arg.fixall_flag
           \/ hist[1].arg.nearby_flag
           \/ hist[1].arg.remove_unconnected_flag
           \/ hist[1].arg.fill_holes_flag
           \/ hist[1].arg.normal_directions_flag

\* C2: in every repair call on a mesh without error the stages invoked
\* follow the fixed order, each but nearby_stitch at most once; and over
\* the whole call calculate_volume runs exactly once and verify runs, last,
\* exactly when exact_check ran, that is exactly when exact, fix_all,
\* nearby, remove_unconnected, fill_holes or normal_directions was
\* requested.
C2_StagesInFixedOrder ==
    /\ InFixedOrder
    /\ CallOver => StagesOfWholeCall

\* C2 on the calls that return: the same, for every call that gets past
\* the read of the reference point in the volume stage.
C2_StagesInFixedOrderOnReturn ==
    /\ InFixedOrder
    /\ Returned => StagesOfWholeCall

\* A returned call, made with the nearby flag and without the exact flag,
\* in which all nine stages ran, nearby_stitch twice.
C2_AllNineStages ==
    /\ Returned
    /\ ~hist[1].arg.exact_flag
    /\ hist[1].arg.nearby_flag
    /\ \A n \in {"exact_check", "remove_unconnected", "fill_holes",
                 "reverse_all_facets", "propagate_normal_directions",
                 "fix_normal_values", "calculate_volume", "verify"} :
           Times(n) = 1
    /\ Times("nearby_stitch") = 2

\* C3: nearby_stitch is invoked only when nearby or fix_all was requested,
\* only while the 3-edge-connected count is below the number of facets at
\* that moment, and at most `iterations` times; its k-th invocation gets
\* the tolerance t0 + (k-1) * inc, t0 the caller's tolerance if the
\* tolerance flag is set and stats.shortest_edge otherwise, inc the
\* caller's increment if the increment flag is set and
\* stats.bounding_diameter / 10000 otherwise.
C3_NearbyRoundsAndTolerances ==
    [][(trace' # trace /\ trace'[Len(trace')].stage = "nearby_stitch") =>
          LET t0  == IF call.args.tolerance_flag THEN call.args.tolerance
                     ELSE 10000 * stl.stats.shortest_edge
              inc == IF call.args.increment_flag THEN call.args.increment
                     ELSE stl.stats.bounding_diameter
              k   == Times("nearby_stitch") + 1
          IN  /\ call.args.nearby_flag \/ call.args.fixall_flag
              /\ stl.stats.connected_facets_3_edge < stl.stats.number_of_facets
              /\ k <= call.args.iterations
              /\ trace'[Len(trace')].tolerance = t0 + (k - 1) * inc]_vars

\* Two rounds made with the defaults of tolerance and increment, the second
\* with a larger tolerance than the first.
C3_Witness ==
    /\ Times("nearby_stitch") = 2
    /\ ~call.args.tolerance_flag
    /\ ~call.args.increment_flag
    /\ \E k \in 1..(Len(trace) - 1) :
          /\ trace[k].stage = "nearby_stitch"
          /\ trace[k + 1].stage = "nearby_stitch"
          /\ trace[k].tolerance = 10000 * stl.stats.shortest_edge
          /\ trace[k + 1].tolerance > trace[k].tolerance

\* C4 as stated: when the nearby loop was entered on a mesh that was not
\* fully connected and the first nearby_stitch round brought full
\* connectivity, the loop stops there, having made strictly fewer rounds
\* than `iterations`, and full connectivity holds when it exits.
C4_EarlyExitStrictlyFewer ==
    [][(pc = "loop" /\ call.i = 1 /\ FullyConnected(stl)) =>
          /\ pc' = "remove"
          /\ trace' = trace
          /\ FullyConnected(stl')
          /\ Times("nearby_stitch") < call.args.iterations]_vars

\* C4, amended: in that case the loop stops after exactly one round, which
\* is no more than `iterations` and strictly fewer whenever `iterations`
\* is 2 or more, and full connectivity holds when it exits.
C4_EarlyExitAfterOneRound ==
    [][(pc = "loop" /\ call.i = 1 /\ FullyConnected(stl)) =>
          /\ pc' = "remove"
          /\ trace' = trace
          /\ FullyConnected(stl')
          /\ Times("nearby_stitch") = 1
          /\ Times("nearby_stitch") <= call.args.iterations
          /\ call.args.iterations >= 2
                 => Times("nearby_stitch") < call.args.iterations]_vars

\* The loop left after the first of two possible rounds, fully connected.
C4_Witness ==
    /\ pc = "remove"
    /\ call.i = 1
    /\ call.args.iterations = 2
    /\ Times("nearby_stitch") = 1
    /\ trace[Len(trace)].stage = "nearby_stitch"
    /\ FullyConnected(stl)
    /\ ~FullyConnected(hist[1].before)

\* Every edge of s is connected, every entry matches in reverse, and every
\* stored normal is the unit normal of its facet's winding.
Closed(s) ==
    /\ PresentEntries(s) = EdgeSlots(s)
    /\ CleanTable(s)
    /\ \A i \in 1..NumFacets(s) :
           s.facet_start[i].normal =
               StlNormalizeVector(StlCalculateNormal(s.facet_start[i]))

\* Only stages that leave vertices, windings and normals as they are, or
\* turn all facets over together, ran.
NoFacetEdited ==
    \A k \in 1..Len(trace) :
        trace[k].stage \in {"exact_check", "reverse_all_facets",
                            "fix_normal_values", "calculate_volume", "verify"}

VolumeStageStep ==
    (pc = "volume" /\ pc' = "verify" /\ ~stl.error) =>
        LET v == GetVolume(stl)
        IN  /\ stl'.stats.volume = Abs(v)
            /\ stl'.stats.volume >= 0
            /\ v < 0 =>
                   stl' = [StlReverseAllFacets(stl) EXCEPT !.stats.volume = -v]
            /\ v >= 0 => stl' = [stl EXCEPT !.stats.volume = v]

C10_EmptyMeshVolumeReadsNothing ==
    (NumFacets(stl) = 0 /\ ~stl.error /\ Ran("calculate_volume")) =>
        /\ fault = "none"
        /\ stl.stats.volume = 0
        /\ Reversals = 0

===========================================================================
